---- MODULE Spec2Model ----
(***************************************************************************)
(* The "brain" service of the voice web agent: apps/brain/app/main.py.     *)
(*                                                                         *)
(*   app = FastAPI(title="Voice Web Agent Brain")                          *)
(*   @app.get("/health")                                                   *)
(*   def health(): return {"status": "ok", "service": "brain", ...}        *)
(*                                                                         *)
(* The state is the application object (its route table), the dict        *)
(* objects the handler has built and that are still referenced, and the    *)
(* requests with their position in the request pipeline:                   *)
(* idle -> received -> matched -> returned -> responded.                   *)
(* A path is the sequence of its segments after the leading "/", so that   *)
(* "/health" is <<"health">> and "/health/" is <<"health", "">>.           *)
(***************************************************************************)
EXTENDS Integers, Sequences, FiniteSets, TLC

VARIABLES requests, routes, heap

vars == <<requests, routes, heap>>

(* Number of requests the clients send; request r is the r-th to arrive.   *)
MaxRequests == 2

Requests == 1..MaxRequests

None == "None"

---------------------------------------------------------------------------
(* The inputs the clients send.                                            *)

Methods == {"GET", "POST", "PUT", "DELETE", "PATCH", "HEAD", "OPTIONS"}

HealthPath == <<"health">>

(* The paths requested: /health, /health/, two of the documentation paths *)
(* and a path no route has.                                                *)
Paths ==
  { HealthPath, <<"health", "">>, <<"openapi.json">>, <<"docs">>, <<"nope">> }

NoInput == [query |-> {}, headers |-> {}, body |-> ""]

Inputs ==
  { NoInput,
    [query |-> {"q"}, headers |-> {}, body |-> ""],
    [query |-> {}, headers |-> {"x-trace"}, body |-> ""],
    [query |-> {}, headers |-> {}, body |-> "{}"] }

(* On the other paths: a method the documentation routes accept, the one  *)
(* they accept implicitly, and one they do not.                            *)
OtherMethods == {"GET", "HEAD", "POST"}

(* The requests the clients send: GET /health with every input, /health    *)
(* with every method, and every other path with the methods above.         *)
Sent ==
  { [method |-> "GET", path |-> HealthPath, input |-> i] : i \in Inputs }
  \cup { [method |-> m, path |-> HealthPath, input |-> NoInput] : m \in Methods }
  \cup { [method |-> m, path |-> p, input |-> NoInput] :
           m \in OtherMethods, p \in Paths \ {HealthPath} }

---------------------------------------------------------------------------
(* main.py:3  app = FastAPI(title="Voice Web Agent Brain")                 *)
(* With no other argument the constructor registers the documentation      *)
(* routes at their default urls, as plain routes (GET and HEAD).           *)

DocsMethods == {"GET", "HEAD"}

(* The constructor called with the documentation urls disabled.            *)
FastAPI_nodocs == << >>

FastAPI ==
  << [path |-> <<"openapi.json">>, methods |-> DocsMethods, endpoint |-> "openapi"],
     [path |-> <<"docs">>, methods |-> DocsMethods, endpoint |-> "swagger_ui_html"],
     [path |-> <<"docs", "oauth2-redirect">>, methods |-> DocsMethods,
      endpoint |-> "swagger_ui_redirect"],
     [path |-> <<"redoc">>, methods |-> DocsMethods, endpoint |-> "redoc_html"] >>

(* The decorator registering a plain route, which also answers HEAD.       *)
app_get_head(rs, path, endpoint) ==
  Append(rs, [path |-> path, methods |-> {"GET", "HEAD"}, endpoint |-> endpoint])

(* main.py:5  @app.get("/health") appends an API route for GET only.       *)
app_get(rs, path, endpoint) ==
  Append(rs, [path |-> path, methods |-> {"GET"}, endpoint |-> endpoint])

app == app_get(FastAPI, HealthPath, "health")

---------------------------------------------------------------------------
(* main.py:6-7  def health(): return {"status": "ok", ...}                 *)
(* A dict is the sequence of its items in insertion order.                 *)

(* The handler with a stale version literal.                               *)
health_stale ==
  << <<"status", "ok">>, <<"service", "brain">>, <<"version", "0.0.1">> >>

(* The handler reporting "busy" while another call's result is in flight.  *)
health_busy ==
  << <<"status", IF \E s \in Requests : requests[s].pc = "returned"
                   THEN "busy" ELSE "ok">>,
     <<"service", "brain">>, <<"version", "0.1.0">> >>

(* The handler whose payload changes once a request has been served.       *)
health_counting ==
  << <<"status", "ok">>, <<"service", "brain">>,
     <<"version", IF \E s \in Requests : requests[s].status = 200
                    THEN "0.1.1" ELSE "0.1.0">> >>

health ==
  << <<"status", "ok">>, <<"service", "brain">>, <<"version", "0.1.0">> >>

(* The handler declared with a required query parameter: health(q: str).   *)
health_params_q == {"q"}

(* main.py:6  the signature of health() declares no parameter.             *)
health_params == {}

(* The payload kept in one module-level dict that every call returns.      *)
BUILD_MAP_shared(h) == 1

(* main.py:7  the dict display builds a new object at every evaluation:    *)
(* an identity no live object has.                                         *)
BUILD_MAP(h) ==
  CHOOSE i \in 1..(Cardinality(DOMAIN h) + 1) : i \notin DOMAIN h

(* The JSON rendering of a dict of strings, compact separators.            *)
RECURSIVE render_items(_)
render_items(d) ==
  IF d = <<>> THEN ""
  ELSE "\"" \o d[1][1] \o "\":\"" \o d[1][2] \o "\""
       \o (IF Len(d) > 1 THEN "," ELSE "") \o render_items(Tail(d))

render(d) == "{" \o render_items(d) \o "}"

---------------------------------------------------------------------------
(* Routing of a request over the route table.                              *)

Matches(route, method, path) ==
  IF route.path # path THEN "NONE"
  ELSE IF method \in route.methods THEN "FULL"
  ELSE "PARTIAL"

FullMatches(rs, method, path) ==
  { i \in 1..Len(rs) : Matches(rs[i], method, path) = "FULL" }

PartialMatches(rs, method, path) ==
  { i \in 1..Len(rs) : Matches(rs[i], method, path) = "PARTIAL" }

Min(S) == CHOOSE i \in S : \A j \in S : i <= j

(* redirect_slashes: the path with its trailing slash removed or added.    *)
redirect_path(path) ==
  IF path[Len(path)] = "" THEN SubSeq(path, 1, Len(path) - 1)
  ELSE Append(path, "")

Resolve(rs, method, path) ==
  IF FullMatches(rs, method, path) # {}
    THEN [status |-> 0, endpoint |-> rs[Min(FullMatches(rs, method, path))].endpoint]
  ELSE IF PartialMatches(rs, method, path) # {}
    THEN [status |-> 405, endpoint |-> None]
  ELSE IF /\ path # <<"">>
          /\ \E i \in 1..Len(rs) : Matches(rs[i], method, redirect_path(path)) # "NONE"
    THEN [status |-> 307, endpoint |-> None]
  ELSE [status |-> 404, endpoint |-> None]

ErrorBody(status) ==
  CASE status = 404 -> "{\"detail\":\"Not Found\"}"
    [] status = 405 -> "{\"detail\":\"Method Not Allowed\"}"
    [] status = 422 -> "{\"detail\":[{\"type\":\"missing\"}]}"
    [] OTHER -> ""

DocsBody(endpoint) ==
  CASE endpoint = "openapi" -> "<openapi schema>"
    [] endpoint = "swagger_ui_html" -> "<swagger ui>"
    [] endpoint = "swagger_ui_redirect" -> "<oauth2 redirect>"
    [] endpoint = "redoc_html" -> "<redoc>"

---------------------------------------------------------------------------
Idle ==
  [pc |-> "idle", method |-> "", path |-> <<>>, input |-> NoInput,
   endpoint |-> None, obj |-> 0, status |-> 0, body |-> ""]

Init ==
  /\ requests = [r \in Requests |-> Idle]
  /\ routes = app
  /\ heap = <<>>

(* A client sends the r-th request.                                        *)
Receive(r, sent) ==
  /\ requests[r].pc = "idle"
  /\ r > 1 => requests[r - 1].pc # "idle"
  /\ requests' = [requests EXCEPT ![r] =
       [@ EXCEPT !.pc = "received", !.method = sent.method, !.path = sent.path,
                 !.input = sent.input]]
  /\ UNCHANGED <<routes, heap>>

(* The router resolves the request: an endpoint to call, or the answer     *)
(* 404, 405 or 307 of the framework.                                       *)
Route(r) ==
  /\ requests[r].pc = "received"
  /\ LET res == Resolve(routes, requests[r].method, requests[r].path)
     IN requests' = [requests EXCEPT ![r] =
          IF res.endpoint # None
            THEN [@ EXCEPT !.pc = "matched", !.endpoint = res.endpoint]
            ELSE [@ EXCEPT !.pc = "responded", !.status = res.status,
                           !.body = ErrorBody(res.status)]]
  /\ UNCHANGED <<routes, heap>>

(* The handler registering a route on the application at every call.      *)
CallHealth_registering(r) ==
  /\ requests[r].pc = "matched"
  /\ requests[r].endpoint = "health"
  /\ requests' = [requests EXCEPT ![r] =
       [@ EXCEPT !.pc = "returned", !.obj = BUILD_MAP(heap)]]
  /\ heap' = [i \in DOMAIN heap \cup {BUILD_MAP(heap)} |->
                IF i = BUILD_MAP(heap) THEN health ELSE heap[i]]
  /\ routes' = app_get(routes, <<"status">>, "health")

(* The handler waiting until no other request is being handled.            *)
CallHealth_exclusive(r) ==
  /\ requests[r].pc = "matched"
  /\ requests[r].endpoint = "health"
  /\ \A s \in Requests \ {r} : requests[s].pc \in {"idle", "responded"}
  /\ requests' = [requests EXCEPT ![r] =
       [@ EXCEPT !.pc = "returned", !.obj = BUILD_MAP(heap)]]
  /\ heap' = [i \in DOMAIN heap \cup {BUILD_MAP(heap)} |->
                IF i = BUILD_MAP(heap) THEN health ELSE heap[i]]
  /\ UNCHANGED routes

(* The parameters of the signature are taken from the request, then        *)
(* health() is called and returns the dict it built.                       *)
CallHealth(r) ==
  /\ requests[r].pc = "matched"
  /\ requests[r].endpoint = "health"
  /\ IF health_params \subseteq requests[r].input.query
       THEN /\ requests' = [requests EXCEPT ![r] =
                 [@ EXCEPT !.pc = "returned", !.obj = BUILD_MAP(heap)]]
            /\ heap' = [i \in DOMAIN heap \cup {BUILD_MAP(heap)} |->
                          IF i = BUILD_MAP(heap) THEN health ELSE heap[i]]
       ELSE /\ requests' = [requests EXCEPT ![r] =
                 [@ EXCEPT !.pc = "responded", !.status = 422,
                           !.body = ErrorBody(422)]]
            /\ heap' = heap
  /\ UNCHANGED routes

(* The returned dict is rendered as the JSON body of a 200 response and    *)
(* the last reference to it is dropped.                                    *)
Respond(r) ==
  /\ requests[r].pc = "returned"
  /\ requests' = [requests EXCEPT ![r] =
       [@ EXCEPT !.pc = "responded", !.status = 200, !.obj = 0,
                 !.body = render(heap[requests[r].obj])]]
  /\ heap' = [i \in DOMAIN heap \ {requests[r].obj} |-> heap[i]]
  /\ UNCHANGED routes

(* A documentation endpoint answers with its page (no body for HEAD).      *)
CallDocs(r) ==
  /\ requests[r].pc = "matched"
  /\ requests[r].endpoint # "health"
  /\ requests' = [requests EXCEPT ![r] =
       [@ EXCEPT !.pc = "responded", !.status = 200,
                 !.body = IF requests[r].method = "HEAD" THEN ""
                          ELSE DocsBody(requests[r].endpoint)]]
  /\ UNCHANGED <<routes, heap>>

Next ==
  \/ \E r \in Requests, sent \in Sent : Receive(r, sent)
  \/ \E r \in Requests : Route(r)
  \/ \E r \in Requests : CallHealth(r)
  \/ \E r \in Requests : Respond(r)
  \/ \E r \in Requests : CallDocs(r)

Spec == Init /\ [][Next]_vars

(* The server handles a request: the next step of some request's pipeline. *)
Serve ==
  \E r \in Requests : Route(r) \/ CallHealth(r) \/ Respond(r) \/ CallDocs(r)

(* The server keeps running: while some request has a step to take, a step *)
(* is eventually taken.                                                    *)
FairSpec == Spec /\ WF_vars(Serve)

---------------------------------------------------------------------------
(* Properties.                                                             *)

IsHealthGet(r) == requests[r].method = "GET" /\ requests[r].path = <<"health">>

Answered(r) == requests[r].pc = "responded"

InFlight(r) == requests[r].pc \in {"received", "matched", "returned"}

HealthBody == "{\"status\":\"ok\",\"service\":\"brain\",\"version\":\"0.1.0\"}"

(* The mapping a dict stands for, whatever the order of its items.         *)
AsMap(d) ==
  [k \in { d[i][1] : i \in 1..Len(d) } |->
     d[CHOOSE i \in 1..Len(d) : d[i][1] = k /\ \A j \in 1..Len(d) : d[j][1] = k => j <= i][2]]

StepOf(r) ==
  \/ \E sent \in Sent : Receive(r, sent)
  \/ Route(r)
  \/ CallHealth(r)
  \/ Respond(r)
  \/ CallDocs(r)

(* C1: every GET /health, whatever was requested before, is answered 200   *)
(* with the body {"status":"ok","service":"brain","version":"0.1.0"}; the  *)
(* value the handler returns is that mapping and there is no error answer. *)
C1_HealthAlwaysOk ==
  \A r \in Requests :
    IsHealthGet(r) =>
      /\ requests[r].pc = "returned" =>
            /\ requests[r].obj \in DOMAIN heap
            /\ AsMap(heap[requests[r].obj]) =
                 [status |-> "ok", service |-> "brain", version |-> "0.1.0"]
      /\ Answered(r) => requests[r].status = 200 /\ requests[r].body = HealthBody

C1_Witness ==
  \E r \in Requests :
    /\ r > 1
    /\ Answered(1)
    /\ IsHealthGet(r) /\ Answered(r) /\ requests[r].status = 200

C3_MethodNotAllowed ==
  \A r \in Requests :
    (requests[r].path = <<"health">> /\ requests[r].method # "GET") =>
      /\ requests[r].endpoint # "health"
      /\ requests[r].obj = 0
      /\ Answered(r) => requests[r].status = 405 /\ requests[r].body # HealthBody

C3_Witness ==
  /\ \E r \in Requests :
       /\ requests[r].path = <<"health">> /\ requests[r].method = "HEAD"
       /\ Answered(r) /\ requests[r].status = 405
  /\ \E r \in Requests :
       /\ requests[r].path = <<"health">> /\ requests[r].method = "POST"
       /\ Answered(r) /\ requests[r].status = 405

(* C4: a GET /health answered while other requests are in flight gets the  *)
(* answer a lone request gets, and a step of one request changes neither   *)
(* another request nor the object another request holds.                   *)
C4_NoInterference ==
  [][\A r \in Requests :
       /\ (Respond(r) /\ \E s \in Requests \ {r} : InFlight(s)) =>
             requests'[r].status = 200 /\ requests'[r].body = HealthBody
       /\ StepOf(r) =>
             \A s \in Requests \ {r} :
               /\ requests'[s] = requests[s]
               /\ requests[s].obj # 0 =>
                     /\ requests[s].obj \in DOMAIN heap'
                     /\ heap'[requests[s].obj] = heap[requests[s].obj]]_vars

C4_Witness ==
  \E r, s \in Requests :
    /\ r < s
    /\ IsHealthGet(r) /\ requests[r].pc = "returned"
    /\ IsHealthGet(s) /\ Answered(s) /\ requests[s].body = HealthBody

(* C5: the body of the n-th answered GET /health equals the body of the    *)
(* first one.                                                              *)
C5_Idempotent ==
  LET served == { r \in Requests : IsHealthGet(r) /\ Answered(r) }
  IN served # {} => \A n \in served : requests[n].body = requests[Min(served)].body

C5_Witness ==
  \E r, s \in Requests :
    /\ r < s
    /\ IsHealthGet(r) /\ Answered(r)
    /\ IsHealthGet(s) /\ Answered(s)
    /\ requests[r].input = requests[s].input

(* C6: two GET /health that differ in query, headers or body get the same  *)
(* status and body, and none gets a validation error.                      *)
C6_InputIndependent ==
  \A r, s \in Requests :
    ( /\ IsHealthGet(r) /\ Answered(r)
      /\ IsHealthGet(s) /\ Answered(s)
      /\ requests[r].input # requests[s].input ) =>
        /\ requests[r].status = requests[s].status
        /\ requests[r].body = requests[s].body
        /\ requests[r].status # 422

C6_Witness ==
  \E r, s \in Requests :
    /\ IsHealthGet(r) /\ Answered(r) /\ requests[r].input.query = {"q"}
    /\ IsHealthGet(s) /\ Answered(s) /\ requests[s].input.body = "{}"

C8_FreshObject ==
  /\ \A r, s \in Requests :
       (r # s /\ requests[r].obj # 0 /\ requests[s].obj # 0) =>
         requests[r].obj # requests[s].obj
  /\ DOMAIN heap = { requests[r].obj : r \in { s \in Requests : requests[s].pc = "returned" } }
  /\ \A r \in Requests : requests[r].pc # "returned" => requests[r].obj = 0

C8_Witness ==
  \E r, s \in Requests :
    /\ r # s
    /\ requests[r].pc = "returned" /\ requests[s].pc = "returned"
    /\ requests[r].obj # requests[s].obj

(* C9: a request in flight can always take its next step, whatever the     *)
(* other requests do, every received GET /health is eventually answered    *)
(* 200, and after any answer a further GET /health can be received.        *)
C9_AlwaysServed ==
  /\ [](\A r \in Requests :
          /\ InFlight(r) =>
                ENABLED (Route(r) \/ CallHealth(r) \/ Respond(r) \/ CallDocs(r))
          /\ (Answered(r) /\ r < MaxRequests /\ requests[r + 1].pc = "idle") =>
                ENABLED Receive(r + 1, [method |-> "GET", path |-> <<"health">>,
                                        input |-> NoInput]))
  /\ \A r \in Requests :
       (IsHealthGet(r) /\ requests[r].pc = "received")
         ~> (Answered(r) /\ requests[r].status = 200)

C9_Witness ==
  \E r, s \in Requests :
    /\ r < s
    /\ InFlight(r)
    /\ IsHealthGet(s) /\ Answered(s) /\ requests[s].status = 200

====
